---- MODULE Spec2Model ----
(***************************************************************************)
(* tinydxt: a fixed-rate block codec for 8-bit grayscale images.  Every    *)
(* aligned 4x4 block is encoded into 6 bytes (two endpoints and sixteen    *)
(* 2-bit codewords); decoding looks every pixel up in the palette derived  *)
(* from the endpoints.  The model follows src/src/main.rs: byte buffers    *)
(* are sequences (index k of the code is index k+1 here), u8/u32           *)
(* arithmetic keeps its width, and an out-of-range slice or index is a     *)
(* panic that ends the call without a result.                              *)
(***************************************************************************)
EXTENDS Integers, Sequences, FiniteSets, TLC

VARIABLES pc, width, height, img, compress_status, compressed,
          decompress_status, decompressed

vars == <<pc, width, height, img, compress_status, compressed,
          decompress_status, decompressed>>

----------------------------------------------------------------------------
(* Bounds of the model *)

\* width and height range over 0..MaxDim
MaxDim == 8

\* a compressed stream handed to decode mode has 0..MaxBufLen bytes
MaxBufLen == 25

\* number of pixels (or of rows) of a block that vary freely over PixelVals
NumFree == 3

----------------------------------------------------------------------------
(* Machine arithmetic *)

Abs(n) == IF n < 0 THEN -n ELSE n

Pow2(n) == 2 ^ n

\* `as u8` of a u32 value
AsU8(n) == n % 256

\* A u32 word is the set of the positions (0..31) of its one bits.
\* the one bits of n, its lowest bit at position b
RECURSIVE BitsFrom(_, _)
BitsFrom(n, b) ==
    IF n = 0 THEN {}
    ELSE (IF n % 2 = 1 THEN {b} ELSE {}) \cup BitsFrom(n \div 2, b + 1)

\* n as u32, for 0 <= n < 2^31
U32(n) == BitsFrom(n, 0)

\* the number a word of at most 31 significant bits stands for
RECURSIVE BitsValue(_)
BitsValue(bits) ==
    IF bits = {} THEN 0
    ELSE LET b == CHOOSE c \in bits : TRUE
         IN  Pow2(b) + BitsValue(bits \ {b})

\* a | b
BitOr(a, b) == a \cup b

\* a & m
BitAnd(a, m) == a \cap m

\* a << n on u32: bits shifted past bit 31 are lost
Shl32(a, n) == {b + n : b \in a} \cap (0..31)

\* a >> n on u32
Shr32(a, n) == {b - n : b \in {c \in a : c >= n}}

\* u32::from_be_bytes
from_be_bytes(bytes) ==
    BitOr(BitOr(Shl32(U32(bytes[1]), 24), Shl32(U32(bytes[2]), 16)),
          BitOr(Shl32(U32(bytes[3]), 8), U32(bytes[4])))

\* the slice s[a .. b] of the code (0-based, b exclusive)
Slice(s, a, b) == SubSeq(s, a + 1, b)

\* a slice s[a .. b] is in range (it panics otherwise)
SliceOk(s, a, b) == a <= b /\ b <= Len(s)

----------------------------------------------------------------------------
(* The codec *)

\* select_block panics when one of its four row slices is out of range
select_block_ok(image, w, x, y) ==
    \A r \in 0..3 : SliceOk(image, ((y + r) * w) + x, ((y + r) * w) + (x + 4))

\* mutant of select_block: the block's column x is left out of the slices
select_block_no_x(image, w, x, y) ==
       Slice(image, ((y + 0) * w), ((y + 0) * w) + 4)
    \o Slice(image, ((y + 1) * w), ((y + 1) * w) + 4)
    \o Slice(image, ((y + 2) * w), ((y + 2) * w) + 4)
    \o Slice(image, ((y + 3) * w), ((y + 3) * w) + 4)

\* select_block: the four rows of the block at origin (x, y), appended
select_block(image, w, x, y) ==
       Slice(image, ((y + 0) * w) + x, ((y + 0) * w) + (x + 4))
    \o Slice(image, ((y + 1) * w) + x, ((y + 1) * w) + (x + 4))
    \o Slice(image, ((y + 2) * w) + x, ((y + 2) * w) + (x + 4))
    \o Slice(image, ((y + 3) * w) + x, ((y + 3) * w) + (x + 4))

\* get_options_table: the 8 candidate values of a pair of endpoints
get_options_table(val0, val1, flip) ==
    << val0, val1,
       AsU8(((2 * val0) + val1) \div 3), AsU8((val0 + (2 * val1)) \div 3),
       IF flip THEN val0 ELSE val1, IF flip THEN val1 ELSE val0,
       AsU8((val0 + val1) \div 2), 0 >>

\* mutant of choose_scan: a candidate as good as the best one replaces it
RECURSIVE choose_scan_ties_last(_, _, _, _, _)
choose_scan_ties_last(residuals, start_i, i, best_i, best_dist) ==
    IF i >= 4 THEN best_i
    ELSE IF residuals[start_i + i + 1] <= best_dist
         THEN choose_scan_ties_last(residuals, start_i, i + 1, i,
                                    residuals[start_i + i + 1])
         ELSE choose_scan_ties_last(residuals, start_i, i + 1, best_i, best_dist)

\* the scan of choose_codeword, from candidate i on
RECURSIVE choose_scan(_, _, _, _, _)
choose_scan(residuals, start_i, i, best_i, best_dist) ==
    IF i >= 4 THEN best_i
    ELSE IF residuals[start_i + i + 1] < best_dist
         THEN choose_scan(residuals, start_i, i + 1, i, residuals[start_i + i + 1])
         ELSE choose_scan(residuals, start_i, i + 1, best_i, best_dist)

\* mutant of choose_codeword: the two halves of the table are exchanged
choose_codeword_other_half(decreasing_order, residuals) ==
    LET start_i == IF decreasing_order THEN 4 ELSE 0
    IN  choose_scan(residuals, start_i, 0, 0, 99999)

choose_codeword(decreasing_order, residuals) ==
    LET start_i == IF decreasing_order THEN 0 ELSE 4
    IN  choose_scan(residuals, start_i, 0, 0, 99999)

\* block.iter().max(): the fold over the elements from i on
RECURSIVE max_from(_, _, _)
max_from(block, i, m) ==
    IF i >= Len(block) THEN m
    ELSE max_from(block, i + 1, IF block[i + 1] > m THEN block[i + 1] ELSE m)

block_max_val(block) == max_from(block, 1, block[1])

\* block.iter().min()
RECURSIVE min_from(_, _, _)
min_from(block, i, m) ==
    IF i >= Len(block) THEN m
    ELSE min_from(block, i + 1, IF block[i + 1] < m THEN block[i + 1] ELSE m)

block_min_val(block) == min_from(block, 1, block[1])

\* the options the encoder measures the pixels against
block_options(block) ==
    get_options_table(block_max_val(block), block_min_val(block), FALSE)

\* the residuals of one pixel against the 8 options (the inner loop)
pixel_residuals(val, options) ==
    << Abs(val - options[1]), Abs(val - options[2]), Abs(val - options[3]),
       Abs(val - options[4]), Abs(val - options[5]), Abs(val - options[6]),
       Abs(val - options[7]), Abs(val - options[8]) >>

\* the residual table from pixel i on: entry i*8+j is |block[i] - options[j]|
RECURSIVE residuals_from(_, _, _)
residuals_from(block, options, i) ==
    IF i >= Len(block) THEN <<>>
    ELSE pixel_residuals(block[i + 1], options) \o residuals_from(block, options, i + 1)

block_residuals(block) == residuals_from(block, block_options(block), 0)

\* total_residuals[j], summed over pixels i..n-1
RECURSIVE residual_sum(_, _, _, _)
residual_sum(residuals, j, i, n) ==
    IF i >= n THEN 0
    ELSE residuals[(i * 8) + j + 1] + residual_sum(residuals, j, i + 1, n)

total_residuals_of(residuals) ==
    << residual_sum(residuals, 0, 0, Len(residuals) \div 8),
       residual_sum(residuals, 1, 0, Len(residuals) \div 8),
       residual_sum(residuals, 2, 0, Len(residuals) \div 8),
       residual_sum(residuals, 3, 0, Len(residuals) \div 8),
       residual_sum(residuals, 4, 0, Len(residuals) \div 8),
       residual_sum(residuals, 5, 0, Len(residuals) \div 8),
       residual_sum(residuals, 6, 0, Len(residuals) \div 8),
       residual_sum(residuals, 7, 0, Len(residuals) \div 8) >>

\* the order the encoder chooses, from the totals
decreasing_order_of(total_residuals) ==
    total_residuals[2 + 1] + total_residuals[3 + 1]
        < total_residuals[6 + 1] + total_residuals[7 + 1]

block_total_residuals(block) == total_residuals_of(block_residuals(block))

block_decreasing_order(block) == decreasing_order_of(block_total_residuals(block))

\* mutant of block_endpoints: the two orders are exchanged
block_endpoints_swapped(decreasing_order, max_val, min_val) ==
    << IF decreasing_order THEN min_val ELSE max_val,
       IF decreasing_order THEN max_val ELSE min_val >>

\* the endpoints (val0, val1) the encoder stores
block_endpoints(decreasing_order, max_val, min_val) ==
    << IF decreasing_order THEN max_val ELSE min_val,
       IF decreasing_order THEN min_val ELSE max_val >>

\* the loop that packs the codewords of pixels i..15 into codes
RECURSIVE pack_codes(_, _, _, _)
pack_codes(residuals, decreasing_order, i, codes) ==
    IF i >= 16 THEN codes
    ELSE pack_codes(residuals, decreasing_order, i + 1,
            BitOr(codes,
                  Shl32(U32(choose_codeword(decreasing_order,
                                            Slice(residuals, i * 8, (i + 1) * 8))),
                        2 * i)))

\* mutant of codes_bytes: the word is stored low byte first
codes_bytes_le(codes) ==
    << BitsValue(BitAnd(Shr32(codes, 0), U32(255))),
       BitsValue(BitAnd(Shr32(codes, 8), U32(255))),
       BitsValue(BitAnd(Shr32(codes, 16), U32(255))),
       BitsValue(BitAnd(Shr32(codes, 24), U32(255))) >>

\* the four bytes the word of codewords is stored as
codes_bytes(codes) ==
    << BitsValue(BitAnd(Shr32(codes, 24), U32(255))),
       BitsValue(BitAnd(Shr32(codes, 16), U32(255))),
       BitsValue(BitAnd(Shr32(codes, 8), U32(255))),
       BitsValue(BitAnd(Shr32(codes, 0), U32(255))) >>

compress_block(block) ==
    LET max_val == block_max_val(block)
        min_val == block_min_val(block)
        residuals == block_residuals(block)
        decreasing_order == decreasing_order_of(total_residuals_of(residuals))
        codes == pack_codes(residuals, decreasing_order, 0, U32(0))
    IN  block_endpoints(decreasing_order, max_val, min_val) \o codes_bytes(codes)

\* mutant of compress_from: the last column of blocks is left out
RECURSIVE compress_from_short(_, _, _, _, _, _)
compress_from_short(image, w, h, x, y, result) ==
    IF y >= h THEN [ok |-> TRUE, bytes |-> result]
    ELSE IF x + 4 >= w THEN compress_from_short(image, w, h, 0, y + 4, result)
    ELSE IF ~select_block_ok(image, w, x, y) THEN [ok |-> FALSE, bytes |-> <<>>]
    ELSE compress_from_short(image, w, h, x + 4, y,
                             result \o compress_block(select_block(image, w, x, y)))

\* the two loops of compress from block origin (x, y) on; a panic of
\* select_block ends the call and drops the result
RECURSIVE compress_from(_, _, _, _, _, _)
compress_from(image, w, h, x, y, result) ==
    IF y >= h THEN [ok |-> TRUE, bytes |-> result]
    ELSE IF x >= w THEN compress_from(image, w, h, 0, y + 4, result)
    ELSE IF ~select_block_ok(image, w, x, y) THEN [ok |-> FALSE, bytes |-> <<>>]
    ELSE compress_from(image, w, h, x + 4, y,
                       result \o compress_block(select_block(image, w, x, y)))

compress(image, w, h) == compress_from(image, w, h, 0, 0, <<>>)

\* the offset of the compressed block that holds pixel (x, y)
block_offset(w, x, y) ==
    LET block_idx == ((y \div 4) * (w \div 4)) + (x \div 4)
    IN  block_idx * 6

\* decompress_pixel reads bytes block_offset .. block_offset+5 and panics
\* when they are out of range
decompress_pixel_ok(stream, w, h, x, y) ==
    block_offset(w, x, y) + 6 <= Len(stream)

\* mutant of pixel_code: the shift is the pixel's index, not twice that
pixel_code_shift_by_index(codes, pixel_idx) ==
    BitsValue(BitAnd(Shr32(codes, pixel_idx), U32(3)))

\* the codeword of pixel pixel_idx in the word codes
pixel_code(codes, pixel_idx) ==
    BitsValue(BitAnd(Shr32(codes, pixel_idx * 2), U32(3)))

\* mutant of decode_options: the decoder builds the table the encoder used
decode_options_no_flip(val0, val1) == get_options_table(val0, val1, FALSE)

\* the table the decoder looks the pixel up in
decode_options(val0, val1) == get_options_table(val0, val1, TRUE)

decompress_pixel(stream, w, h, x, y) ==
    LET val0 == stream[block_offset(w, x, y) + 0 + 1]
        val1 == stream[block_offset(w, x, y) + 1 + 1]
        code_bytes == Slice(stream, block_offset(w, x, y) + 2, block_offset(w, x, y) + 6)
        codes == from_be_bytes(code_bytes)
        pixel_idx == ((y % 4) * 4) + (x % 4)
        code == pixel_code(codes, pixel_idx)
        idx == IF val0 > val1 THEN code + 0 ELSE code + 4
    IN  decode_options(val0, val1)[idx + 1]

\* decompress: every pixel in turn; a panic of decompress_pixel ends the
\* call and drops the result
decompress(stream, w, h) ==
    IF \A y \in 0..(h - 1) : \A x \in 0..(w - 1) : decompress_pixel_ok(stream, w, h, x, y)
    THEN [ok |-> TRUE,
          bytes |-> [k \in 1..(w * h) |->
                        decompress_pixel(stream, w, h, (k - 1) % w, (k - 1) \div w)]]
    ELSE [ok |-> FALSE, bytes |-> <<>>]

----------------------------------------------------------------------------
(* Inputs *)

\* pixel values the generated images and blocks are made of
PixelVals == {0, 1, 3, 100, 128, 255}

\* an image whose pixel (x, y) is base + sx*x + sy*y, as a byte
RampImage(base, sx, sy, w, h) ==
    [k \in 1..(w * h) |-> (base + (sx * ((k - 1) % w)) + (sy * ((k - 1) \div w))) % 256]

RampBases == {0, 10, 200}
RampSteps == {<<0, 0>>, <<1, 4>>, <<31, 7>>, <<3, 50>>}

\* a stream of n bytes b, b+step, b+2*step, ...
RampStream(b, step, n) == [k \in 1..n |-> (b + (step * (k - 1))) % 256]

\* position (1..16) of the k-th freely varying pixel of a block
FreePos(k) == (((k - 1) * 5) % 16) + 1

\* a 4x4 image with one fill value and NumFree pixels given by free
FreeBlock(fill, free) ==
    [i \in 1..16 |->
        IF \E k \in 1..NumFree : FreePos(k) = i
        THEN free[CHOOSE k \in 1..NumFree : FreePos(k) = i]
        ELSE fill]

\* a 4x4 image with one fill value and its first NumFree rows given by free
RowBlock(fill, free) ==
    [i \in 1..16 |->
        IF (i - 1) \div 4 < NumFree THEN free[((i - 1) \div 4) + 1] ELSE fill]

\* a 4x4 image whose 16 pixels all are v
UniformBlock(v) == [i \in 1..16 |-> v]

----------------------------------------------------------------------------
(* The program: encode mode writes compress(img) as the compressed stream, *)
(* decode mode reads a compressed stream and decompresses it.              *)

InitEncode(image, w, h) ==
    /\ pc = "encode"
    /\ width = w
    /\ height = h
    /\ img = image
    /\ compress_status = "none"
    /\ compressed = <<>>
    /\ decompress_status = "none"
    /\ decompressed = <<>>

InitDecode ==
    /\ pc = "decode"
    /\ width \in 0..MaxDim
    /\ height \in 0..MaxDim
    /\ img = <<>>
    /\ compress_status = "none"
    /\ compressed \in { RampStream(b, step, n) :
                            b \in {0, 200}, step \in {0, 37}, n \in 0..MaxBufLen }
    /\ decompress_status = "none"
    /\ decompressed = <<>>

Init ==
    \/ \E w \in 0..MaxDim, h \in 0..MaxDim, base \in RampBases, s \in RampSteps :
          InitEncode(RampImage(base, s[1], s[2], w, h), w, h)
    \/ InitDecode

\* 4x4 images: every uniform block, and blocks of NumFree free pixels or rows
InitBlock ==
    \/ \E v \in 0..255 : InitEncode(UniformBlock(v), 4, 4)
    \/ \E fill \in PixelVals, free \in [1..NumFree -> PixelVals] :
          InitEncode(FreeBlock(fill, free), 4, 4)
    \/ \E fill \in PixelVals, free \in [1..NumFree -> PixelVals] :
          InitEncode(RowBlock(fill, free), 4, 4)

\* 4x4 images: every arrangement of the two extreme values
InitExtremes == \E image \in [1..16 -> {0, 255}] : InitEncode(image, 4, 4)

\* main, mode "encode": compress the image; the stream is written on success
Compress ==
    /\ pc = "encode"
    /\ \E r \in {compress(img, width, height)} :
           /\ compress_status' = IF r.ok THEN "ok" ELSE "panic"
           /\ compressed' = r.bytes
           /\ pc' = IF r.ok THEN "decode" ELSE "done"
    /\ UNCHANGED <<width, height, img, decompress_status, decompressed>>

\* main, mode "decode": decompress the stream with the given width and height
Decompress ==
    /\ pc = "decode"
    /\ \E r \in {decompress(compressed, width, height)} :
           /\ decompress_status' = IF r.ok THEN "ok" ELSE "panic"
           /\ decompressed' = r.bytes
    /\ pc' = "done"
    /\ UNCHANGED <<width, height, img, compress_status, compressed>>

Next == Compress \/ Decompress

Spec == Init /\ [][Next]_vars

SpecBlock == InitBlock /\ [][Next]_vars

SpecExtremes == InitExtremes /\ [][Next]_vars

----------------------------------------------------------------------------
(* Vocabulary of the properties.  These definitions read the state; they   *)
(* state the layout and the selection rule in their own words rather than  *)
(* through the operators of the codec.                                     *)

Aligned == width % 4 = 0 /\ height % 4 = 0

\* the block columns and rows of an aligned image
BlockCols == 0..((width \div 4) - 1)
BlockRows == 0..((height \div 4) - 1)

\* index (from 1) in a row-major w-wide buffer of pixel i (0..15) of block (bx, by)
PixelIndex(w, bx, by, i) == ((((by * 4) + (i \div 4)) * w) + (bx * 4) + (i % 4)) + 1

\* the 16 pixels of block (bx, by) of the input image
BlockAt(bx, by) == [i \in 1..16 |-> img[PixelIndex(width, bx, by, i - 1)]]

\* the 16 decoded pixels of block (bx, by)
DecodedAt(bx, by) == [i \in 1..16 |-> decompressed[PixelIndex(width, bx, by, i - 1)]]

\* the 6 bytes of block (bx, by) in the compressed stream
EncodedAt(bx, by) ==
    [j \in 1..6 |-> compressed[((((by * (width \div 4)) + bx) * 6) + j)]]

\* largest and smallest value of a block
MaxOf(block) == CHOOSE v \in {block[i] : i \in 1..16} : \A i \in 1..16 : block[i] <= v
MinOf(block) == CHOOSE v \in {block[i] : i \in 1..16} : \A i \in 1..16 : v <= block[i]

\* bit n (0..31) of the big-endian word stored in bytes 2..5 of a block
WordBit(bytes, n) == (bytes[6 - (n \div 8)] \div Pow2(n % 8)) % 2

\* the codeword of pixel i (0..15): bits 2i and 2i+1 of that word
CodewordAt(bytes, i) == WordBit(bytes, 2 * i) + (2 * WordBit(bytes, (2 * i) + 1))

\* the order rule of the encoder, on the totals against (max, min, flip = false)
DecreasingOrder(block) ==
    \E totals \in {block_total_residuals(block)} :
        totals[3] + totals[4] < totals[7] + totals[8]

\* the table the encoder measures against
EncodePalette(block) == get_options_table(MaxOf(block), MinOf(block), FALSE)

\* what the properties read of block (bx, by) once the image is encoded:
\* its pixels, its 6 bytes, its extremes, the order and the encoder's table
\* (base is the first table index of the active half)
EncodedBlock(bx, by) ==
    LET block == BlockAt(bx, by)
        dec == DecreasingOrder(block)
    IN  [ block |-> block,
          bytes |-> EncodedAt(bx, by),
          max |-> MaxOf(block),
          min |-> MinOf(block),
          decreasing |-> dec,
          base |-> IF dec THEN 0 ELSE 4,
          palette |-> EncodePalette(block) ]

EncodedBlocks == { EncodedBlock(bx, by) : bx \in BlockCols, by \in BlockRows }

\* the same, with the decoded pixels of the block
DecodedBlock(bx, by) ==
    [ enc |-> EncodedBlock(bx, by), decoded |-> DecodedAt(bx, by) ]

DecodedBlocks == { DecodedBlock(bx, by) : bx \in BlockCols, by \in BlockRows }

\* residual of pixel i (0..15) of an encoded block against candidate k
\* (0..3) of the active half
Residual(e, i, k) == Abs(e.block[i + 1] - e.palette[e.base + k + 1])

\* the smallest candidate of the active half with the least residual
BestCandidate(e, i) ==
    CHOOSE k \in 0..3 :
        /\ \A m \in 0..3 : Residual(e, i, k) <= Residual(e, i, m)
        /\ \A m \in 0..(k - 1) : Residual(e, i, m) > Residual(e, i, k)

\* the image was encoded, and the stream decoded with the same dimensions
Encoded == compress_status = "ok"
RoundTrip == pc = "done" /\ compress_status = "ok"

\* decode mode was run on a stream that was read, not encoded here
DecodedOnly == pc = "done" /\ compress_status = "none"

Uniform(block) == \A i \in 1..16 : block[i] = block[1]

----------------------------------------------------------------------------
(* Properties *)

\* C1: a block whose 16 pixels all equal one byte v (v = 0 included) is
\* decoded, at each of its 16 positions, to exactly v.
C1_UniformBlockExact ==
    (RoundTrip /\ Aligned) =>
        /\ decompress_status = "ok"
        /\ \A bx \in BlockCols, by \in BlockRows :
              Uniform(BlockAt(bx, by)) =>
                  \A i \in 1..16 : DecodedAt(bx, by)[i] = BlockAt(bx, by)[1]

C1_Witness ==
    /\ RoundTrip /\ width = 4 /\ height = 4
    /\ Uniform(img) /\ img[1] = 0
    /\ decompressed = img

\* C2: a block whose pixels are drawn from {0, 255} only decodes every
\* pixel to 0 or to 255.
C2_ExtremesStayExtreme ==
    (RoundTrip /\ Aligned) =>
        /\ decompress_status = "ok"
        /\ \A bx \in BlockCols, by \in BlockRows :
              (\A i \in 1..16 : BlockAt(bx, by)[i] \in {0, 255}) =>
                  \A i \in 1..16 : DecodedAt(bx, by)[i] \in {0, 255}

\* a checkerboard of 0 and 255, encoded and decoded
C2_Witness ==
    /\ RoundTrip /\ width = 4 /\ height = 4
    /\ img = [i \in 1..16 |-> IF (((i - 1) \div 4) + ((i - 1) % 4)) % 2 = 0 THEN 0 ELSE 255]
    /\ \A i \in 1..16 : decompressed[i] \in {0, 255}

\* C3: for width and height multiples of 4 and width*height input bytes,
\* compress returns (width/4)*(height/4)*6 bytes and decompress of them
\* returns width*height bytes.
C3_Shape ==
    (compress_status # "none" /\ Aligned /\ Len(img) = width * height) =>
        /\ compress_status = "ok"
        /\ Len(compressed) = ((width \div 4) * (height \div 4)) * 6
        /\ (pc = "done" =>
              /\ decompress_status = "ok"
              /\ Len(decompressed) = width * height)

C3_Witness ==
    /\ RoundTrip /\ width = 8 /\ height = 4
    /\ Len(compressed) = 12 /\ Len(decompressed) = 32

\* C4: encoding with a width or height that is not a positive multiple of 4
\* ends with an InvalidDimensions error value and no output bytes.
C4_RejectsBadDimensions ==
    (compress_status # "none" /\ ~(Aligned /\ width > 0 /\ height > 0)) =>
        /\ compress_status = "InvalidDimensions"
        /\ compressed = <<>>

\* C5: decoding a stream shorter than (width/4)*(height/4)*6 bytes ends
\* with an InvalidDimensions failure and no output; a stream of at least
\* that many bytes is decoded.
C5_RejectsShortStream ==
    DecodedOnly =>
        IF Len(compressed) < ((width \div 4) * (height \div 4)) * 6
        THEN decompress_status = "InvalidDimensions" /\ decompressed = <<>>
        ELSE decompress_status = "ok"

\* C6: in decompress(compress(img)) of an aligned image, pixel (x, y) is
\* position (y%4)*4 + (x%4) of its own 4x4 block encoded alone, and that
\* block's 6 bytes sit at offset ((y/4)*(width/4) + x/4)*6 of the stream.
C6_BlockLocal ==
    (RoundTrip /\ Aligned) =>
        /\ decompress_status = "ok"
        /\ \A bx \in BlockCols, by \in BlockRows :
              \E alone \in {compress_block(BlockAt(bx, by))} :
                  /\ EncodedAt(bx, by) = alone
                  /\ \A i \in 0..15 :
                        DecodedAt(bx, by)[i + 1]
                            = decompress_pixel(alone, 4, 4, i % 4, i \div 4)

\* an image of two block rows and two block columns whose blocks differ
C6_Witness ==
    /\ RoundTrip /\ width = 8 /\ height = 8 /\ decompress_status = "ok"
    /\ BlockAt(0, 0) # BlockAt(1, 0) /\ BlockAt(0, 0) # BlockAt(0, 1)
    /\ EncodedAt(1, 1) # EncodedAt(0, 0)
    /\ DecodedAt(1, 1) # DecodedAt(0, 0)

C8_CodewordRule ==
    (Encoded /\ Aligned) =>
        \A e \in EncodedBlocks :
            \A i \in 0..15 : CodewordAt(e.bytes, i) = BestCandidate(e, i)

\* a pixel with two equally good candidates, and differing codewords in the
\* lowest and in the highest two bits of the word
C8_Witness ==
    /\ Encoded /\ width = 4 /\ height = 4
    /\ \E e \in EncodedBlocks :
          /\ \E i \in 0..15 : \E k \in 0..3, m \in 0..3 :
                /\ k < m
                /\ Residual(e, i, k) = Residual(e, i, m)
                /\ CodewordAt(e.bytes, i) = k
          /\ CodewordAt(e.bytes, 15) # CodewordAt(e.bytes, 0)

\* C9: every decoded byte is the candidate the encoder selected for the
\* pixel, P_enc[base + codeword_i], so the error of the pixel is the least
\* residual over the active half; also when max = min.
C9_DecodedIsSelected ==
    (RoundTrip /\ Aligned) =>
        /\ decompress_status = "ok"
        /\ \A d \in DecodedBlocks :
              \A i \in 0..15 :
                  /\ d.decoded[i + 1] =
                        d.enc.palette[d.enc.base + CodewordAt(d.enc.bytes, i) + 1]
                  /\ \A m \in 0..3 :
                        Abs(d.enc.block[i + 1] - d.decoded[i + 1])
                            <= Residual(d.enc, i, m)
                  /\ \E m \in 0..3 :
                        Abs(d.enc.block[i + 1] - d.decoded[i + 1])
                            = Residual(d.enc, i, m)

\* max = min: the encoder takes the half 0..3, the decoder the half 4..7
C9_Witness ==
    /\ RoundTrip /\ width = 4 /\ height = 4
    /\ \E d \in DecodedBlocks :
          /\ d.enc.max = d.enc.min /\ d.enc.decreasing
          /\ ~(d.enc.bytes[1] > d.enc.bytes[2])
          /\ d.decoded = d.enc.block

\* C10: every decoded pixel lies in [min(block), max(block)]; in the
\* increasing order codeword 3 (the constant 0) is never emitted, and a
\* block whose minimum is above 0 decodes no pixel to 0.
C10_DecodedInRange ==
    (RoundTrip /\ Aligned) =>
        /\ decompress_status = "ok"
        /\ \A d \in DecodedBlocks :
              \A i \in 0..15 :
                  /\ d.enc.min <= d.decoded[i + 1]
                  /\ d.decoded[i + 1] <= d.enc.max
                  /\ (~d.enc.decreasing => CodewordAt(d.enc.bytes, i) # 3)
                  /\ (d.enc.min > 0 => d.decoded[i + 1] # 0)

\* the increasing order on a block whose minimum is above 0
C10_Witness ==
    /\ RoundTrip /\ width = 4 /\ height = 4
    /\ \E d \in DecodedBlocks :
          /\ ~d.enc.decreasing
          /\ d.enc.min > 0 /\ d.enc.max > d.enc.min
          /\ \A i \in 1..16 : d.decoded[i] >= d.enc.min

====
